---- MODULE Spec2Model ----
(***************************************************************************)
(* Naagrik Nivedan: the React front end (auth context, routing, the        *)
(* ReportIssue wizard, the complaints service over the Firebase Realtime   *)
(* Database) and the prediction service it calls.                          *)
(*                                                                         *)
(* Nullable JavaScript values are modelled as sequences of length 0 or 1   *)
(* (<<>> is null) when they hold objects, and by the string Null when they *)
(* hold strings.  Image payloads, coordinates, addresses and display names *)
(* are copied through the code without being read by any branch; they are  *)
(* left out of the records.                                                *)
(***************************************************************************)
EXTENDS Naturals, Integers, Sequences, FiniteSets, TLC

\* ------------------------------------------------------------------ bounds
\* images captured or uploaded by one mounted ReportIssue instance
MaxImages == 2
\* keys handed out by push() on the complaints list
MaxComplaints == 1

Null == "null"

\* JavaScript truthiness of a string-valued field (x || default)
Falsy(x) == x \in {"", Null}

Or(x, dflt) == IF Falsy(x) THEN dflt ELSE x

\* ------------------------------------------------------------------ state
VARIABLES
    user,                \* AuthProvider: user state, <<>> or <<record>>
    authLoading,         \* AuthProvider: isLoading
    pendingFetch,        \* uids whose users/{uid} read is awaited
    route,               \* current location (react-router)
    mounted,             \* the element AppContent renders for the location
    step,                \* ReportIssue: wizard step
    formData,            \* ReportIssue: form state
    isLoading,           \* ReportIssue: loading flag
    classificationResult,\* ReportIssue: <<>> or <<response.data>>
    imgCount,            \* images handed to this ReportIssue instance
    inflight,            \* images whose classification POST is awaited
    imageOutcome,        \* how the POST for formData.image ended, if it has
    sent,                \* image -> number of POSTs issued for it
    db,                  \* complaints/ in the Realtime Database: key -> record
    nextKey,             \* next key push() hands out
    pendingWrites,       \* records whose set() is awaited by handleSubmit
    artifact,            \* prediction service: what lies at the model path
    numClasses,          \* prediction service: configured number of classes
    svcState,            \* prediction service: "starting", "serving" or "failed"
    model,               \* prediction service: <<>> or <<loaded parameters>>
    diagnostic,          \* prediction service: startup error reported, or ""
    calls,               \* prediction service: predict calls, in arrival order
    lastCall,            \* the last complaintsService call: arguments and outcome
    subs,                \* the subscribe calls made so far, in order
    dash,                \* the mounted dashboard component
    mapComplaints,       \* ComplaintsDashboard: complaints state
    heatmapData,         \* ComplaintsDashboard: heatmapData state
    showHeatmap,         \* ComplaintsDashboard: showHeatmap state
    details              \* DepartmentDashboard: selectedComplaint and the ComplaintDetails form

authVars == <<user, authLoading, pendingFetch>>
routeVars == <<route, mounted>>
reportVars == <<step, formData, isLoading, classificationResult, imgCount, inflight, imageOutcome, sent>>
dbVars == <<db, nextKey, pendingWrites>>
frontVars == <<authVars, routeVars, reportVars, dbVars>>
svcVars == <<artifact, numClasses, svcState, model, diagnostic, calls>>
clientVars == <<lastCall, subs, dash>>
heatVars == <<mapComplaints, heatmapData, showHeatmap>>
detailVars == <<details>>
vars == <<frontVars, svcVars, clientVars, heatVars, detailVars>>

\* ------------------------------------------------------------- auth context
Uids == {"u1", "u2"}

\* what users/{uid} may hold (userType absent is "")
ProfileData ==
    { [userType |-> "citizen", department |-> Null],
      [userType |-> "official", department |-> "Public Works"],
      [userType |-> "", department |-> Null] }

isAuthenticated(u) == u # <<>> /\ u[1].isAuthenticated

isCitizen(u) == u # <<>> /\ u[1].userType = "citizen"

isOfficial(u) == u # <<>> /\ u[1].userType = "official"

getDepartment(u) == IF u = <<>> THEN Null ELSE Or(u[1].department, Null)

\* the object setUser would receive if the stored profile were ignored
UserFromProfile_asCitizen(uid, userData) ==
    [uid |-> uid, userType |-> "citizen", department |-> Null, isAuthenticated |-> TRUE]

\* the object setUser receives when the profile exists
UserFromProfile(uid, userData) ==
    [uid |-> uid,
     userType |-> Or(userData.userType, "citizen"),
     department |-> Or(userData.department, Null),
     isAuthenticated |-> TRUE]

\* the object setUser receives when the profile is missing or the read fails
DefaultUser(uid) ==
    [uid |-> uid, userType |-> "citizen", department |-> Null, isAuthenticated |-> TRUE]

\* ------------------------------------------------------------------ routing
CITIZEN_DASHBOARD_PATH == "CITIZEN_DASHBOARD_PATH"
DEPARTMENT_DASHBOARD_PATH == "DEPARTMENT_DASHBOARD_PATH"

CitizenRoutes == {CITIZEN_DASHBOARD_PATH, "/report", "/track", "/map"}
OfficialRoutes == {DEPARTMENT_DASHBOARD_PATH, "/admin-dashboard"}
Paths == CitizenRoutes \cup OfficialRoutes \cup {"/login", "/", "/dashboard", "/unknown"}

Page(name) == [kind |-> "page", name |-> name]
NavigateTo(path) == [kind |-> "navigate", name |-> path]
Spinner(name) == [kind |-> "spinner", name |-> name]

ProtectedRoute_noRoleCheck(children, requiredRole, requiredDepartment, u, loading) ==
    IF loading THEN Spinner("ProtectedRoute")
    ELSE IF ~isAuthenticated(u) THEN NavigateTo("/login")
    ELSE children

ProtectedRoute(children, requiredRole, requiredDepartment, u, loading) ==
    IF loading THEN Spinner("ProtectedRoute")
    ELSE IF ~isAuthenticated(u) THEN NavigateTo("/login")
    ELSE IF requiredRole = "citizen" /\ ~isCitizen(u) THEN NavigateTo("/dashboard")
    ELSE IF requiredRole = "official" /\ ~isOfficial(u) THEN NavigateTo("/")
    ELSE IF ~Falsy(requiredDepartment) /\ getDepartment(u) # requiredDepartment
         THEN NavigateTo("/dashboard")
    ELSE children

DashboardRedirect(u) ==
    IF ~isAuthenticated(u) THEN NavigateTo("/login")
    ELSE NavigateTo(IF isCitizen(u) THEN CITIZEN_DASHBOARD_PATH ELSE DEPARTMENT_DASHBOARD_PATH)

PageOf(path) ==
    CASE path = CITIZEN_DASHBOARD_PATH -> "CitizenDashboard"
      [] path = "/report" -> "ReportIssue"
      [] path = "/track" -> "TrackComplaint"
      [] path = "/map" -> "MapView"
      [] path = DEPARTMENT_DASHBOARD_PATH -> "DepartmentDashboard"
      [] path = "/admin-dashboard" -> "ComplaintsDashboard"
      [] path = "/login" -> "Login"
      [] OTHER -> "Home"

Routes(path, u, loading) ==
    CASE path = "/login" -> Page("Login")
      [] path = "/" -> Page("Home")
      [] path \in CitizenRoutes -> ProtectedRoute(Page(PageOf(path)), "citizen", Null, u, loading)
      [] path \in OfficialRoutes -> ProtectedRoute(Page(PageOf(path)), "official", Null, u, loading)
      [] path = "/dashboard" -> DashboardRedirect(u)
      [] OTHER -> NavigateTo("/")

AppContent(path, u, loading) ==
    IF loading THEN Spinner("AppContent") ELSE Routes(path, u, loading)

ReportPage == Page("ReportIssue")

\* -------------------------------------------------------------- ReportIssue
ClassLabels ==
    {"damaged_signs", "fallen_trees", "garbage", "graffiti", "illegal_parking", "potholes"}

\* the manual options of the issue type dropdown
ManualTypes ==
    {"street_light", "water_leak", "traffic_signal", "sidewalk_damage", "drainage",
     "health_issue", "medical_emergency", "school_issue", "education_facility", "other"}

issueTypes == ClassLabels \cup ManualTypes

\* the dropdown values the user is taken to pick: "Select issue type" (""), every
\* classifier category and the unmapped "other"
DropdownChoices == {""} \cup ClassLabels \cup {"other"}

\* what the user types into the description box: nothing, blanks, text
Descriptions == {"", " ", "text"}

trim_asTyped(s) == s

trim(s) == IF s = " " THEN "" ELSE s

\* response.data of POST /api/classify-issue the model draws from (confidence in percent)
Responses == [issue_type : {"potholes", "garbage", "illegal_parking"}, confidence : {87}]

InitialFormData == [image |-> 0, issueType |-> "", description |-> ""]

ReportInitial ==
    /\ step' = 1
    /\ formData' = InitialFormData
    /\ isLoading' = FALSE
    /\ classificationResult' = <<>>
    /\ imgCount' = 0
    /\ inflight' = {}
    /\ imageOutcome' = "none"
    /\ sent' = <<>>


\* MODEL_SETUP.md's routing table for the six classifier categories
DocumentedDepartment ==
    ("damaged_signs" :> "Traffic Department") @@ ("fallen_trees" :> "Public Works") @@
    ("garbage" :> "Sanitation") @@ ("graffiti" :> "Public Works") @@
    ("illegal_parking" :> "Traffic Department") @@ ("potholes" :> "Public Works")

departmentMap_garbageToPublicWorks ==
    ("potholes" :> "Public Works") @@ ("garbage" :> "Public Works") @@
    ("graffiti" :> "Public Works") @@ ("fallen_trees" :> "Public Works") @@
    ("damaged_signs" :> "Traffic Department") @@ ("illegal_parking" :> "Traffic Department") @@
    ("street_light" :> "Public Works") @@ ("water_leak" :> "Water Department") @@
    ("traffic_signal" :> "Traffic Department") @@ ("sidewalk_damage" :> "Public Works") @@
    ("drainage" :> "Public Works") @@ ("health_issue" :> "Health Department") @@
    ("medical_emergency" :> "Health Department") @@ ("school_issue" :> "Education Department") @@
    ("education_facility" :> "Education Department")

departmentMap ==
    ("potholes" :> "Public Works") @@ ("garbage" :> "Sanitation") @@
    ("graffiti" :> "Public Works") @@ ("fallen_trees" :> "Public Works") @@
    ("damaged_signs" :> "Traffic Department") @@ ("illegal_parking" :> "Traffic Department") @@
    ("street_light" :> "Public Works") @@ ("water_leak" :> "Water Department") @@
    ("traffic_signal" :> "Traffic Department") @@ ("sidewalk_damage" :> "Public Works") @@
    ("drainage" :> "Public Works") @@ ("health_issue" :> "Health Department") @@
    ("medical_emergency" :> "Health Department") @@ ("school_issue" :> "Education Department") @@
    ("education_facility" :> "Education Department")

getDepartmentForIssueType(issueType) ==
    IF issueType \in DOMAIN departmentMap THEN departmentMap[issueType] ELSE "Public Works"

highPriorityTypes == {"medical_emergency", "water_leak", "traffic_signal"}

getPriority(issueType) == IF issueType \in highPriorityTypes THEN "high" ELSE "normal"

\* handleSubmit's complaintData
ComplaintData(fd) ==
    [issueType |-> fd.issueType,
     description |-> trim(fd.description),
     department |-> getDepartmentForIssueType(fd.issueType),
     priority |-> getPriority(fd.issueType),
     status |-> "pending"]

createComplaint_statusAsGiven(complaintData, userId, key) ==
    [id |-> key, userId |-> userId, issueType |-> complaintData.issueType,
     description |-> complaintData.description, department |-> complaintData.department,
     status |-> complaintData.status, priority |-> Or(complaintData.priority, "normal")]

\* ------------------------------------------------------- complaintsService
\* the record createComplaint hands to set(); key is push()'s new key
createComplaint(complaintData, userId, key) ==
    [id |-> key,
     userId |-> userId,
     issueType |-> complaintData.issueType,
     description |-> complaintData.description,
     department |-> complaintData.department,
     status |-> Or(complaintData.status, "pending"),
     priority |-> Or(complaintData.priority, "normal")]

Orphaned(ws) == { [w EXCEPT !.live = FALSE] : w \in ws }

\* ------------------------------------------------------------------ initial
\* the prediction service as seen from the front end's specifications: not started
NoCall ==
    [op |-> "", id |-> 0, userId |-> "", data |-> <<>>, dbOk |-> TRUE,
     key |-> 0, record |-> <<>>, threw |-> FALSE]

NoStats == [total |-> 0, pending |-> 0, inProgress |-> 0, resolved |-> 0, urgent |-> 0]

NoDashboard ==
    [kind |-> "none", inst |-> 0, sub |-> 0, key |-> Null, isLoading |-> FALSE,
     complaints |-> <<>>, stats |-> NoStats]

\* no complaintsService call made, nothing subscribed, no dashboard mounted
\* DepartmentDashboard with no complaint selected: ComplaintDetails is not rendered
NoDetails ==
    [selected |-> <<>>, localComplaint |-> <<>>, newStatus |-> "pending", newPriority |-> "normal"]

NoClients ==
    /\ details = NoDetails
    /\ lastCall = NoCall
    /\ subs = <<>>
    /\ dash = NoDashboard
    /\ mapComplaints = <<>>
    /\ heatmapData = <<>>
    /\ showHeatmap = FALSE

ServiceDown ==
    /\ artifact = [kind |-> "missing", weights |-> "", classes |-> 0]
    /\ numClasses = 6
    /\ svcState = "starting"
    /\ model = <<>>
    /\ diagnostic = ""
    /\ calls = <<>>

Init ==
    /\ ServiceDown
    /\ NoClients
    /\ user = <<>>
    /\ authLoading = TRUE
    /\ pendingFetch = {}
    /\ route \in Paths
    /\ mounted = AppContent(route, <<>>, TRUE)
    /\ step = 1
    /\ formData = InitialFormData
    /\ isLoading = FALSE
    /\ classificationResult = <<>>
    /\ imgCount = 0
    /\ inflight = {}
    /\ imageOutcome = "none"
    /\ sent = <<>>
    /\ db = <<>>
    /\ nextKey = 1
    /\ pendingWrites = {}

\* re-render of AppContent for location r and auth state (u, l); a ReportIssue
\* that leaves the tree loses its state, and its awaited writes lose their caller
Rerender(r, u, l) ==
    LET e == AppContent(r, u, l) IN
    /\ route' = r
    /\ mounted' = e
    /\ IF mounted = ReportPage /\ e # ReportPage
       THEN ReportInitial /\ pendingWrites' = Orphaned(pendingWrites)
       ELSE UNCHANGED <<reportVars, pendingWrites>>

\* ------------------------------------------------------------- auth actions
\* onAuthStateChanged(null)
AuthStateChangedSignedOut ==
    /\ user' = <<>>
    /\ authLoading' = FALSE
    /\ Rerender(route, <<>>, FALSE)
    /\ UNCHANGED <<pendingFetch, db, nextKey>>
    /\ UNCHANGED <<svcVars, clientVars, heatVars, detailVars>>

\* onAuthStateChanged(firebaseUser): the profile read is issued
AuthStateChangedSignedIn(uid) ==
    /\ uid \notin pendingFetch
    /\ pendingFetch' = pendingFetch \cup {uid}
    /\ UNCHANGED <<user, authLoading, routeVars, reportVars, dbVars>>
    /\ UNCHANGED <<svcVars, clientVars, heatVars, detailVars>>

\* ... and resolves: the profile exists, is missing, or the read throws
ProfileFetched(uid, outcome, userData) ==
    /\ uid \in pendingFetch
    /\ pendingFetch' = pendingFetch \ {uid}
    /\ LET u == IF outcome = "exists" THEN <<UserFromProfile(uid, userData)>>
                ELSE <<DefaultUser(uid)>> IN
       /\ user' = u
       /\ Rerender(route, u, FALSE)
    /\ authLoading' = FALSE
    /\ UNCHANGED <<db, nextKey>>
    /\ UNCHANGED <<svcVars, clientVars, heatVars, detailVars>>

\* ------------------------------------------------------------ route actions
\* a link, the address bar or navigate(path)
Goto(path) ==
    /\ path # route
    /\ Rerender(path, user, authLoading)
    /\ UNCHANGED <<authVars, db, nextKey>>
    /\ UNCHANGED <<svcVars, clientVars, heatVars, detailVars>>

\* a mounted <Navigate to=...> navigates
Redirect ==
    /\ mounted.kind = "navigate"
    /\ Rerender(mounted.name, user, authLoading)
    /\ UNCHANGED <<authVars, db, nextKey>>
    /\ UNCHANGED <<svcVars, clientVars, heatVars, detailVars>>

\* ------------------------------------------------------ ReportIssue actions
ReportMounted == mounted = ReportPage

classifyImage_send_twice(img) == Append(sent, 2)

\* the POSTs classifyImage issues for a new image
classifyImage_send(img) == Append(sent, 1)

\* handleImageCapture / handleImageUpload: store the image, go to step 2 and
\* start classifyImage (loading flag raised, one POST issued)
HandleImage ==
    /\ ReportMounted
    /\ step = 1
    /\ imgCount < MaxImages
    /\ imgCount' = imgCount + 1
    /\ formData' = [formData EXCEPT !.image = imgCount + 1]
    /\ step' = 2
    /\ isLoading' = TRUE
    /\ sent' = classifyImage_send(imgCount + 1)
    /\ inflight' = inflight \cup {imgCount + 1}
    /\ imageOutcome' = "pending"
    /\ UNCHANGED <<classificationResult, authVars, routeVars, dbVars>>
    /\ UNCHANGED <<svcVars, clientVars, heatVars, detailVars>>

handleImageCapture == HandleImage

handleImageUpload == HandleImage

classifyImage_onSuccess_dropsPrev(fd, data) ==
    [InitialFormData EXCEPT !.issueType = data.issue_type]

\* classifyImage, try branch: the form after the response arrived
classifyImage_onSuccess(fd, data) == [fd EXCEPT !.issueType = data.issue_type]

\* classifyImage: the POST for image img resolves with response.data
ClassifySucceeds(img, data) ==
    /\ ReportMounted
    /\ img \in inflight
    /\ classificationResult' = <<data>>
    /\ formData' = classifyImage_onSuccess(formData, data)
    /\ isLoading' = FALSE
    /\ inflight' = inflight \ {img}
    /\ imageOutcome' = IF img = formData.image THEN "ok" ELSE imageOutcome
    /\ UNCHANGED <<step, imgCount, sent, authVars, routeVars, dbVars>>
    /\ UNCHANGED <<svcVars, clientVars, heatVars, detailVars>>

\* classifyImage: the POST for image img rejects (error response or network)
ClassifyFails(img) ==
    /\ ReportMounted
    /\ img \in inflight
    /\ isLoading' = FALSE
    /\ inflight' = inflight \ {img}
    /\ imageOutcome' = IF img = formData.image THEN "failed" ELSE imageOutcome
    /\ UNCHANGED <<step, formData, classificationResult, imgCount, sent,
                   authVars, routeVars, dbVars>>
    /\ UNCHANGED <<svcVars, clientVars, heatVars, detailVars>>

\* the issue type <select> of step 2
SelectIssueType(t) ==
    /\ ReportMounted
    /\ step = 2
    /\ t # formData.issueType
    /\ formData' = [formData EXCEPT !.issueType = t]
    /\ UNCHANGED <<step, isLoading, classificationResult, imgCount, inflight, imageOutcome, sent,
                   authVars, routeVars, dbVars>>
    /\ UNCHANGED <<svcVars, clientVars, heatVars, detailVars>>

\* the description <textarea> of step 2
EditDescription(d) ==
    /\ ReportMounted
    /\ step = 2
    /\ d # formData.description
    /\ formData' = [formData EXCEPT !.description = d]
    /\ UNCHANGED <<step, isLoading, classificationResult, imgCount, inflight, imageOutcome, sent,
                   authVars, routeVars, dbVars>>
    /\ UNCHANGED <<svcVars, clientVars, heatVars, detailVars>>

\* the Back and Continue buttons
SetStep(n) ==
    /\ ReportMounted
    /\ \/ step = 2 /\ n = 1
       \/ step = 2 /\ n = 3 /\ ~Falsy(formData.issueType)
       \/ step = 3 /\ n = 2
    /\ step' = n
    /\ UNCHANGED <<formData, isLoading, classificationResult, imgCount, inflight, imageOutcome, sent,
                   authVars, routeVars, dbVars>>
    /\ UNCHANGED <<svcVars, clientVars, heatVars, detailVars>>

\* handleSubmit up to the awaited set() of createComplaint
handleSubmit ==
    /\ ReportMounted
    /\ step = 3
    /\ ~isLoading
    /\ IF user = <<>> \/ Falsy(user[1].uid) THEN
          /\ Rerender("/login", user, authLoading)
          /\ UNCHANGED <<authVars, db, nextKey>>
       ELSE IF Falsy(formData.issueType) THEN
          UNCHANGED <<authVars, routeVars, reportVars, dbVars>>
       ELSE IF Falsy(formData.description) \/ trim(formData.description) = "" THEN
          UNCHANGED <<authVars, routeVars, reportVars, dbVars>>
       ELSE
          /\ nextKey <= MaxComplaints
          /\ isLoading' = TRUE
          /\ nextKey' = nextKey + 1
          /\ pendingWrites' = pendingWrites \cup
                { [rec |-> createComplaint(ComplaintData(formData), user[1].uid, nextKey),
                   live |-> TRUE] }
          /\ UNCHANGED <<step, formData, classificationResult, imgCount, inflight, imageOutcome, sent,
                         authVars, routeVars, db>>
    /\ UNCHANGED <<svcVars, clientVars, heatVars, detailVars>>

\* createComplaint's set() resolves: toast, navigate to /track
SubmitSucceeds(w) ==
    /\ w \in pendingWrites
    /\ db' = (w.rec.id :> w.rec) @@ db
    /\ LET e == AppContent("/track", user, authLoading) IN
       /\ route' = "/track"
       /\ mounted' = e
       /\ IF mounted = ReportPage
          THEN ReportInitial /\ pendingWrites' = Orphaned(pendingWrites \ {w})
          ELSE UNCHANGED reportVars /\ pendingWrites' = pendingWrites \ {w}
    /\ UNCHANGED <<authVars, nextKey>>
    /\ UNCHANGED <<svcVars, clientVars, heatVars, detailVars>>

\* createComplaint's set() rejects: toast, loading flag lowered
SubmitFails(w) ==
    /\ w \in pendingWrites
    /\ pendingWrites' = pendingWrites \ {w}
    /\ isLoading' = IF w.live THEN FALSE ELSE isLoading
    /\ UNCHANGED <<step, formData, classificationResult, imgCount, inflight, imageOutcome, sent,
                   authVars, routeVars, db, nextKey>>
    /\ UNCHANGED <<svcVars, clientVars, heatVars, detailVars>>

\* ------------------------------------------------------------ specification
\* the application shell: auth context and routing
Next ==
    \/ AuthStateChangedSignedOut
    \/ \E uid \in Uids : AuthStateChangedSignedIn(uid)
    \/ \E uid \in Uids, outcome \in {"exists", "missing", "error"}, userData \in ProfileData :
          ProfileFetched(uid, outcome, userData)
    \/ \E path \in Paths : Goto(path)
    \/ Redirect

Spec == Init /\ [][Next]_vars

\* a signed-in citizen opens /report: ReportIssue is constructed
InitReport ==
    /\ ServiceDown
    /\ NoClients
    /\ user = <<DefaultUser("u1")>>
    /\ authLoading = FALSE
    /\ pendingFetch = {}
    /\ route = "/report"
    /\ mounted = AppContent("/report", user, FALSE)
    /\ step = 1
    /\ formData = InitialFormData
    /\ isLoading = FALSE
    /\ classificationResult = <<>>
    /\ imgCount = 0
    /\ inflight = {}
    /\ imageOutcome = "none"
    /\ sent = <<>>
    /\ db = <<>>
    /\ nextKey = 1
    /\ pendingWrites = {}

NextReport ==
    \/ \E path \in Paths : Goto(path)
    \/ Redirect
    \/ handleImageCapture
    \/ handleImageUpload
    \/ \E img \in 1..MaxImages, data \in Responses : ClassifySucceeds(img, data)
    \/ \E img \in 1..MaxImages : ClassifyFails(img)
    \/ \E t \in DropdownChoices : SelectIssueType(t)
    \/ \E d \in Descriptions : EditDescription(d)
    \/ \E n \in 1..3 : SetStep(n)
    \/ handleSubmit
    \/ \E w \in pendingWrites : SubmitSucceeds(w)
    \/ \E w \in pendingWrites : SubmitFails(w)

SpecReport == InitReport /\ [][NextReport]_vars

\* ------------------------------------------------------- prediction service
\* predict calls the model lets arrive
MaxCalls == 2

\* the ordered class label list for a configured class count (5: without
\* illegal_parking)
LabelsFor_alwaysSix(n) ==
    <<"damaged_signs", "fallen_trees", "garbage", "graffiti", "illegal_parking", "potholes">>

LabelsFor(n) ==
    IF n = 5
    THEN <<"damaged_signs", "fallen_trees", "garbage", "graffiti", "potholes">>
    ELSE <<"damaged_signs", "fallen_trees", "garbage", "graffiti", "illegal_parking", "potholes">>

ClassCounts == {5, 6}

TrainedWeights == {"wA", "wB"}

\* what may lie at the model path when the process starts
Artifacts ==
    { [kind |-> "missing", weights |-> "", classes |-> 0],
      [kind |-> "corrupt", weights |-> "", classes |-> 0] }
    \cup [kind : {"valid"}, weights : TrainedWeights, classes : ClassCounts]

LoadModel_fallsBackToRandom(a, n) ==
    IF a.kind = "valid" /\ a.classes = n
    THEN [ok |-> TRUE, error |-> "",
          model |-> <<[weights |-> a.weights, labels |-> LabelsFor(n)]>>]
    ELSE [ok |-> TRUE, error |-> "",
          model |-> <<[weights |-> "random", labels |-> LabelsFor(n)]>>]

\* weight loading at process start: the parameters, or ModelLoadError
LoadModel(a, n) ==
    IF a.kind = "missing"
    THEN [ok |-> FALSE, error |-> "ModelLoadError: model file not found", model |-> <<>>]
    ELSE IF a.kind = "corrupt"
    THEN [ok |-> FALSE, error |-> "ModelLoadError: cannot load weights", model |-> <<>>]
    ELSE IF a.classes # n
    THEN [ok |-> FALSE, error |-> "ModelLoadError: class count mismatch", model |-> <<>>]
    ELSE [ok |-> TRUE, error |-> "",
          model |-> <<[weights |-> a.weights, labels |-> LabelsFor(n)]>>]

\* request payloads: two decodable RGB images, corrupted bytes, a zero-byte
\* payload, a single-channel image
Payloads == {"road", "bin", "corrupt", "empty", "gray"}

\* the preprocessing pipeline: a tensor, DecodeError or UnsupportedFormatError
Preprocess(payload) ==
    IF payload \in {"corrupt", "empty"} THEN [ok |-> FALSE, error |-> "DecodeError", tensor |-> ""]
    ELSE IF payload = "gray" THEN [ok |-> FALSE, error |-> "UnsupportedFormatError", tensor |-> ""]
    ELSE [ok |-> TRUE, error |-> "", tensor |-> payload]

\* the network's scores: a fixed function of the parameters and the tensor
Logit(weights, tensor, i) ==
    LET seed == CASE weights = "wA" -> 1 [] weights = "wB" -> 2 [] OTHER -> 0
        feature == IF tensor = "road" THEN 1 ELSE 2
    IN  (seed * i + feature * i * i) % 7

RECURSIVE SumSeq(_)
SumSeq(q) == IF q = <<>> THEN 0 ELSE Head(q) + SumSeq(Tail(q))

\* softmax, as numerators over the common denominator SumSeq
Softmax(m, tensor) == [i \in 1..Len(m.labels) |-> 2 ^ Logit(m.weights, tensor, i)]

\* the first index holding the largest value
ArgMax(d) ==
    CHOOSE i \in DOMAIN d :
        /\ \A j \in DOMAIN d : d[j] <= d[i]
        /\ \A j \in DOMAIN d : d[j] = d[i] => i <= j

NoResult == [kind |-> "", category |-> "", num |-> 0, den |-> 1, probabilities |-> <<>>]

Failure(error) == [NoResult EXCEPT !.kind = error]

\* classify: label, confidence (num/den) and the full distribution
Classify(m, tensor) ==
    LET d == Softmax(m, tensor) IN
    [kind |-> "ok", category |-> m.labels[ArgMax(d)],
     num |-> d[ArgMax(d)], den |-> SumSeq(d), probabilities |-> d]

ModelAfterInferenceError_reinitialised(m) ==
    <<[weights |-> "random", labels |-> m[1].labels]>>

\* the loaded parameters after a classify call threw
ModelAfterInferenceError(m) == m

\* the process starts: load the weights, then serve or refuse to start
StartService ==
    /\ svcState = "starting"
    /\ LET l == LoadModel(artifact, numClasses) IN
       /\ svcState' = IF l.ok THEN "serving" ELSE "failed"
       /\ model' = l.model
       /\ diagnostic' = l.error
    /\ UNCHANGED <<artifact, numClasses, calls, frontVars, clientVars, heatVars, detailVars>>

\* predict(image_bytes): a request is accepted
PredictArrives(payload) ==
    /\ svcState = "serving"
    /\ Len(calls) < MaxCalls
    /\ calls' = Append(calls, [image |-> payload, stage |-> "received", tensor |-> "",
                               result |-> NoResult])
    /\ UNCHANGED <<artifact, numClasses, svcState, model, diagnostic, frontVars, clientVars, heatVars, detailVars>>

\* predict: the call's preprocessing step
PredictPreprocess(c) ==
    /\ c \in DOMAIN calls
    /\ calls[c].stage = "received"
    /\ LET t == Preprocess(calls[c].image) IN
       calls' = [calls EXCEPT ![c] =
                    IF t.ok THEN [@ EXCEPT !.stage = "tensor", !.tensor = t.tensor]
                    ELSE [@ EXCEPT !.stage = "done", !.result = Failure(t.error)]]
    /\ UNCHANGED <<artifact, numClasses, svcState, model, diagnostic, frontVars, clientVars, heatVars, detailVars>>

\* predict: the call's classify step, which may hit a numeric fault
PredictClassify(c, fault) ==
    /\ c \in DOMAIN calls
    /\ calls[c].stage = "tensor"
    /\ IF fault
       THEN /\ calls' = [calls EXCEPT ![c] =
                            [@ EXCEPT !.stage = "done", !.result = Failure("InferenceError")]]
            /\ model' = ModelAfterInferenceError(model)
       ELSE /\ calls' = [calls EXCEPT ![c] =
                            [@ EXCEPT !.stage = "done", !.result = Classify(model[1], calls[c].tensor)]]
            /\ model' = model
    /\ UNCHANGED <<artifact, numClasses, svcState, diagnostic, frontVars, clientVars, heatVars, detailVars>>

InitPredict ==
    /\ NoClients
    /\ artifact \in Artifacts
    /\ numClasses \in ClassCounts
    /\ svcState = "starting"
    /\ model = <<>>
    /\ diagnostic = ""
    /\ calls = <<>>
    /\ user = <<>>
    /\ authLoading = TRUE
    /\ pendingFetch = {}
    /\ route = "/"
    /\ mounted = AppContent("/", <<>>, TRUE)
    /\ step = 1
    /\ formData = InitialFormData
    /\ isLoading = FALSE
    /\ classificationResult = <<>>
    /\ imgCount = 0
    /\ inflight = {}
    /\ imageOutcome = "none"
    /\ sent = <<>>
    /\ db = <<>>
    /\ nextKey = 1
    /\ pendingWrites = {}

NextPredict ==
    \/ StartService
    \/ \E payload \in Payloads : PredictArrives(payload)
    \/ \E c \in 1..MaxCalls : PredictPreprocess(c)
    \/ \E c \in 1..MaxCalls, fault \in BOOLEAN : PredictClassify(c, fault)

SpecPredict == InitPredict /\ [][NextPredict]_vars

\* ------------------------------------------------------ complaintsService
\* keys push() hands out to complaintsService callers
MaxRecords == 2

\* every front-end variable at its value before anything is rendered
FrontEndIdle ==
    /\ user = <<>>
    /\ authLoading = TRUE
    /\ pendingFetch = {}
    /\ route = "/"
    /\ mounted = AppContent("/", <<>>, TRUE)
    /\ step = 1
    /\ formData = InitialFormData
    /\ isLoading = FALSE
    /\ classificationResult = <<>>
    /\ imgCount = 0
    /\ inflight = {}
    /\ imageOutcome = "none"
    /\ sent = <<>>
    /\ db = <<>>
    /\ nextKey = 1
    /\ pendingWrites = {}

\* complaintData objects handed to createComplaint: status and priority
\* absent, empty or set
ComplaintInputs ==
    [issueType : {"garbage"}, description : {"text"}, department : {"Sanitation"},
     status : {Null, "", "resolved"}, priority : {Null, "urgent"}]

\* the listeners an onValue call registered: the query it listens on and the
\* snapshot callback it was given
Registration(i) == [query |-> i, callback |-> <<"onSnapshot", i>>]

\* the children of complaints/ a subscription's query selects
QueryKeys(database, sub) ==
    IF sub.kind = "user"
    THEN { k \in DOMAIN database : database[k].userId = sub.key }
    ELSE DOMAIN database

\* snapshot.val(): key -> record; snapshot.exists() is a non-empty domain
Snapshot(database, sub) == [k \in QueryKeys(database, sub) |-> database[k]]

\* a database change raises a value event on every listener whose view changed
Notify(ss, old, new) ==
    [i \in DOMAIN ss |->
        IF ss[i].registered /\ Snapshot(old, ss[i]) # Snapshot(new, ss[i])
        THEN [ss[i] EXCEPT !.pending = TRUE]
        ELSE ss[i]]

\* getComplaintById: snapshot.val() when the snapshot exists, else null
getComplaintById(database, complaintId) ==
    IF complaintId \in DOMAIN database THEN <<database[complaintId]>> ELSE <<>>

\* a createComplaint call: push() takes the next key, set() writes or rejects
CreateComplaint(complaintData, userId, setOk) ==
    /\ nextKey <= MaxRecords
    /\ nextKey' = nextKey + 1
    /\ IF setOk
       THEN /\ db' = (nextKey :> createComplaint(complaintData, userId, nextKey)) @@ db
            /\ subs' = Notify(subs, db, db')
            /\ lastCall' = [NoCall EXCEPT !.op = "createComplaint", !.userId = userId,
                                          !.data = <<complaintData>>, !.key = nextKey]
       ELSE /\ UNCHANGED <<db, subs>>
            /\ lastCall' = [NoCall EXCEPT !.op = "createComplaint", !.userId = userId,
                                          !.data = <<complaintData>>, !.dbOk = FALSE,
                                          !.threw = TRUE]
    /\ UNCHANGED <<authVars, routeVars, reportVars, pendingWrites, svcVars, dash, heatVars, detailVars>>

\* a getComplaintById call: get() answers with a snapshot or rejects
GetComplaintById(complaintId, readOk) ==
    /\ IF readOk
       THEN lastCall' = [NoCall EXCEPT !.op = "getComplaintById", !.id = complaintId,
                                       !.record = getComplaintById(db, complaintId)]
       ELSE lastCall' = [NoCall EXCEPT !.op = "getComplaintById", !.id = complaintId,
                                       !.dbOk = FALSE, !.threw = TRUE]
    /\ UNCHANGED <<frontVars, svcVars, subs, dash, heatVars, detailVars>>

InitComplaints ==
    /\ ServiceDown
    /\ NoClients
    /\ FrontEndIdle

NextComplaints ==
    \/ \E d \in ComplaintInputs, u \in Uids, setOk \in BOOLEAN : CreateComplaint(d, u, setOk)
    \/ \E id \in 1..(MaxRecords + 1), readOk \in BOOLEAN : GetComplaintById(id, readOk)

SpecComplaints == InitComplaints /\ [][NextComplaints]_vars

\* ------------------------------------------- subscriptions and dashboards
\* subscribe calls the model lets the dashboards make
MaxSubs == 2

RECURSIVE Ascending(_)
\* Object.keys of a snapshot value: the push keys in key order
Ascending(S) ==
    IF S = {} THEN <<>>
    ELSE LET m == CHOOSE x \in S : \A y \in S : x <= y
         IN  <<m>> \o Ascending(S \ {m})

\* Object.keys(complaints).map(key => ({ id: key, ...complaints[key] }))
ObjectKeysMap(val) ==
    CHOOSE list \in
        { [n \in 1..Len(keys) |-> [val[keys[n]] EXCEPT !.id = val[keys[n]].id]] :
            keys \in {Ascending(DOMAIN val)} } : TRUE

\* createdAt is the creation instant; push keys are handed out in the same order
createdAt(c) == c.id

\* allComplaints.sort((a, b) => dateB - dateA): a stable sort, so the n-th
\* element is the one with n - 1 elements before it in the order
SortNewestFirst(list) ==
    LET before(k, i) ==
            \/ createdAt(list[k]) > createdAt(list[i])
            \/ createdAt(list[k]) = createdAt(list[i]) /\ k < i
    IN  [n \in 1..Len(list) |->
            list[CHOOSE i \in 1..Len(list) :
                    Cardinality({ k \in 1..Len(list) : before(k, i) }) = n - 1]]

\* filters = {}: no status and no department filter
NoFilters == [status |-> Null, department |-> Null]

ApplyFilters(list, filters) ==
    LET byStatus(c) == c.status = filters.status
        byDepartment(c) == c.department = filters.department
        l1 == IF Falsy(filters.status) THEN list ELSE SelectSeq(list, byStatus)
    IN  IF Falsy(filters.department) THEN l1 ELSE SelectSeq(l1, byDepartment)

subscribeToUserComplaints_onSnapshot_silentWhenEmpty(snapshot) ==
    IF DOMAIN snapshot # {} THEN << ObjectKeysMap(snapshot) >> ELSE <<>>

\* the snapshot callback of subscribeToUserComplaints: the arguments of the
\* callback invocations it makes
subscribeToUserComplaints_onSnapshot(snapshot) ==
    IF DOMAIN snapshot # {} THEN << ObjectKeysMap(snapshot) >> ELSE << <<>> >>

\* the snapshot callback of subscribeToAllComplaints: allComplaints is built,
\* then filtered, then sorted, then handed to the callback (each stage bound
\* to its value before the next reads it)
subscribeToAllComplaints_onSnapshot(snapshot, filters) ==
    IF DOMAIN snapshot # {}
    THEN CHOOSE args \in
            { << SortNewestFirst(filtered) >> :
                filtered \in { ApplyFilters(allComplaints, filters) :
                                 allComplaints \in {ObjectKeysMap(snapshot)} } } : TRUE
    ELSE << <<>> >>

onSnapshot(sub, snapshot) ==
    IF sub.kind = "user" THEN subscribeToUserComplaints_onSnapshot(snapshot)
    ELSE subscribeToAllComplaints_onSnapshot(snapshot, NoFilters)

\* the error callback of both subscribe functions: callback([])
onListenerError == << <<>> >>

\* the function onValue returned, which the service hands to off() as callback
unsubscribeFn(i) == <<"unsubscribe", i>>

\* firebase off(query, 'value', callback): drops the registrations on the query
\* whose snapshot callback is the one given (every one when none is given)
off(regs, q, callback) ==
    { r \in regs : ~(r.query = q /\ (callback = Null \/ r.callback = callback)) }

\* the unsubscribe function a subscribe call returned (a no-op when setup
\* threw); unsubscribedAt keeps the first push key not yet handed out then
Unsubscribe(ss, i) ==
    IF i = 0 \/ ss[i].threw THEN ss
    ELSE [ss EXCEPT ![i].registered =
                        Registration(i) \in off(IF ss[i].registered THEN {Registration(i)} ELSE {},
                                                i, unsubscribeFn(i)),
                    ![i].unsubscribed = TRUE,
                    ![i].unsubscribedAt = nextKey]

\* toLowerCase() of trim() of the department names in use
normalizeDepartment(d) ==
    CASE d = "Public Works" -> "public works"
      [] d = " public works" -> "public works"
      [] d = "Sanitation" -> "sanitation"
      [] d = Null -> ""
      [] OTHER -> d

\* calculateStats of DepartmentDashboard: the counts setStats receives
calculateStats(list) ==
    [total |-> Len(list),
     pending |-> Cardinality({ n \in DOMAIN list : list[n].status = "pending" }),
     inProgress |-> Cardinality({ n \in DOMAIN list : list[n].status = "in_progress" }),
     resolved |-> Cardinality({ n \in DOMAIN list : list[n].status = "resolved" }),
     urgent |-> Cardinality({ n \in DOMAIN list : list[n].priority = "urgent" })]

\* the callback a dashboard hands to subscribe, applied to its own state; the
\* setters of an unmounted component do nothing
DashboardCallback(d, sub, list) ==
    LET sameDepartment(c) == normalizeDepartment(c.department) = normalizeDepartment(sub.key)
    IN  IF d.kind = "none" \/ d.inst # sub.owner THEN d
        ELSE IF sub.kind = "user"
        THEN [d EXCEPT !.complaints = list,
                      !.stats = [calculateStats(list) EXCEPT !.urgent = 0],
                      !.isLoading = FALSE]
        ELSE CHOOSE after \in
                { [d EXCEPT !.complaints = departmentComplaints,
                            !.stats = calculateStats(departmentComplaints),
                            !.isLoading = FALSE] :
                    departmentComplaints \in {SelectSeq(list, sameDepartment)} } : TRUE

RECURSIVE Invoke(_, _, _)
\* the dashboard after the callback invocations in args, in order
Invoke(d, sub, args) ==
    IF args = <<>> THEN d ELSE Invoke(DashboardCallback(d, sub, Head(args)), sub, Tail(args))

\* a subscribe call: the record of the subscription it set up
NewSub(kind, key, owner, throws) ==
    [kind |-> kind, key |-> key, owner |-> owner, threw |-> throws,
     registered |-> ~throws, pending |-> ~throws, called |-> throws,
     errored |-> FALSE, unsubscribed |-> FALSE, unsubscribedAt |-> 0, lastArg |-> <<>>]

\* the body of a dashboard's effect for the dependency value key: no
\* subscription without a uid or department, else setIsLoading(true) and
\* subscribe, whose setup may throw and then calls callback([]) at once
RunEffect(d, ss, key, throws) ==
    IF Falsy(key)
    THEN /\ dash' = [d EXCEPT !.key = key, !.sub = 0, !.isLoading = FALSE, !.complaints = <<>>]
         /\ subs' = ss
    ELSE LET sub == NewSub(IF d.kind = "citizen" THEN "user" ELSE "all", key, d.inst, throws)
             d1 == [d EXCEPT !.key = key, !.sub = Len(ss) + 1, !.isLoading = TRUE]
         IN  /\ subs' = Append(ss, sub)
             /\ dash' = IF throws THEN Invoke(d1, sub, << <<>> >>) ELSE d1

Departments == {"Public Works", "Sanitation"}

\* CitizenDashboard mounts for the signed-in user and its effect runs
MountCitizenDashboard(uid, throws) ==
    /\ dash.kind = "none"
    /\ dash.inst < MaxSubs
    /\ Len(subs) < MaxSubs
    /\ RunEffect([NoDashboard EXCEPT !.kind = "citizen", !.inst = dash.inst + 1,
                                     !.isLoading = TRUE], subs, uid, throws)
    /\ UNCHANGED <<frontVars, svcVars, lastCall, heatVars, detailVars>>

\* DepartmentDashboard mounts and its effect runs
MountDepartmentDashboard(department, throws) ==
    /\ dash.kind = "none"
    /\ dash.inst < MaxSubs
    /\ Len(subs) < MaxSubs
    /\ RunEffect([NoDashboard EXCEPT !.kind = "department", !.inst = dash.inst + 1,
                                     !.isLoading = TRUE], subs, department, throws)
    /\ UNCHANGED <<frontVars, svcVars, lastCall, heatVars, detailVars>>

\* the effect's dependency changes: cleanup of the last run, then a new run
EffectRerun(key, throws) ==
    /\ dash.kind # "none"
    /\ key \in (IF dash.kind = "citizen" THEN Uids ELSE Departments) \cup {Null}
    /\ key # dash.key
    /\ Len(subs) < MaxSubs
    /\ RunEffect(dash, Unsubscribe(subs, dash.sub), key, throws)
    /\ UNCHANGED <<frontVars, svcVars, lastCall, heatVars, detailVars>>

\* the dashboard unmounts: cleanup of the last effect run
UnmountDashboard ==
    /\ dash.kind # "none"
    /\ subs' = Unsubscribe(subs, dash.sub)
    /\ dash' = [NoDashboard EXCEPT !.inst = dash.inst]
    /\ UNCHANGED <<frontVars, svcVars, lastCall, heatVars, detailVars>>

\* two subscriptions listen on the same query: complaints/ as a whole, or the
\* complaints of the same userId
SameQuery(a, b) == a.kind = b.kind /\ (a.kind = "user" => a.key = b.key)

\* the registered listeners on the query of subscription i
Listeners(i) == { j \in DOMAIN subs : subs[j].registered /\ SameQuery(subs[j], subs[i]) }

\* a subscription after its listener ran and made the callback invocations args
Delivered(sub, args) ==
    [sub EXCEPT !.pending = FALSE,
                !.called = @ \/ args # <<>>,
                !.lastArg = IF args = <<>> THEN @ ELSE args[Len(args)]]

\* a subscription after firebase cancelled its listener
Cancelled(sub) ==
    [sub EXCEPT !.registered = FALSE, !.pending = FALSE, !.errored = TRUE,
                !.called = TRUE, !.lastArg = onListenerError[1]]

RECURSIVE InvokeInOrder(_, _, _)
\* the dashboard after the listeners in order ran, listener j making the
\* callback invocations argsOf[j]
InvokeInOrder(d, order, argsOf) ==
    IF order = <<>> THEN d
    ELSE CHOOSE last \in
            { InvokeInOrder(next, Tail(order), argsOf) :
                next \in { Invoke(d, subs[Head(order)], argsOf[Head(order)]) } } : TRUE

\* firebase raises the value event on a query: the listeners owed it run in
\* the order they were registered, each handed the same snapshot
DeliverSnapshot(i) ==
    /\ i \in DOMAIN subs
    /\ subs[i].registered
    /\ subs[i].pending
    /\ \A j \in Listeners(i) : subs[j].pending => i <= j
    /\ \E snapshot \in {Snapshot(db, subs[i])}, owed \in {{ j \in Listeners(i) : subs[j].pending }} :
       \E argsOf \in {[j \in owed |-> onSnapshot(subs[j], snapshot)]}, order \in {Ascending(owed)} :
          /\ subs' = [j \in DOMAIN subs |->
                        IF j \in owed THEN Delivered(subs[j], argsOf[j]) ELSE subs[j]]
          /\ dash' = InvokeInOrder(dash, order, argsOf)
    /\ UNCHANGED <<frontVars, svcVars, lastCall, heatVars, detailVars>>

\* firebase cancels the listeners on a query (permission denied): their error
\* callbacks run in the order they were registered
ListenerError(i) ==
    /\ i \in DOMAIN subs
    /\ subs[i].registered
    /\ \A j \in Listeners(i) : i <= j
    /\ \E hit \in {Listeners(i)} :
       \E argsOf \in {[j \in hit |-> onListenerError]}, order \in {Ascending(hit)} :
          /\ subs' = [j \in DOMAIN subs |-> IF j \in hit THEN Cancelled(subs[j]) ELSE subs[j]]
          /\ dash' = InvokeInOrder(dash, order, argsOf)
    /\ UNCHANGED <<frontVars, svcVars, lastCall, heatVars, detailVars>>

\* the settings of the dashboard's status, priority and search filters
FilterSettings ==
    [status : {"all", "pending", "resolved"}, priority : {"all", "normal", "urgent"},
     search : {"", "text", "zzz"}]

\* (text || '').toLowerCase().includes(search.toLowerCase()) for the texts in use
includes(text, search) == search = "" \/ Or(text, "") = search

\* filteredComplaints of CitizenDashboard without its last test
filteredComplaints_noOwnerTest(list, filters, uid) ==
    LET keep(complaint) ==
            /\ ~(filters.status # "all" /\ complaint.status # filters.status)
            /\ ~(filters.priority # "all" /\ complaint.priority # filters.priority)
            /\ ~(/\ ~Falsy(filters.search)
                 /\ ~includes(complaint.description, filters.search)
                 /\ ~includes(Null, filters.search))
    IN  SelectSeq(list, keep)

\* filteredComplaints of CitizenDashboard: the list the page renders (the
\* records here carry no address)
filteredComplaints(list, filters, uid) ==
    LET keep(complaint) ==
            /\ ~(filters.status # "all" /\ complaint.status # filters.status)
            /\ ~(filters.priority # "all" /\ complaint.priority # filters.priority)
            /\ ~(/\ ~Falsy(filters.search)
                 /\ ~includes(complaint.description, filters.search)
                 /\ ~includes(Null, filters.search))
            /\ ~(~Falsy(complaint.userId) /\ complaint.userId # uid)
    IN  SelectSeq(list, keep)

\* complaintData of the complaints written while dashboards listen; a write
\* that set() rejects leaves complaints/ as it was and is left out here
ListenedInputs ==
    [issueType : {"garbage"}, description : {"text"},
     department : {"Sanitation", " public works"}, status : {Null}, priority : {Null}]

InitSubscribe ==
    /\ ServiceDown
    /\ NoClients
    /\ FrontEndIdle

NextSubscribe ==
    \/ \E uid \in Uids, throws \in BOOLEAN : MountCitizenDashboard(uid, throws)
    \/ \E d \in Departments \cup {Null}, throws \in BOOLEAN : MountDepartmentDashboard(d, throws)
    \/ \E key \in Uids \cup Departments \cup {Null}, throws \in BOOLEAN : EffectRerun(key, throws)
    \/ UnmountDashboard
    \/ \E i \in 1..MaxSubs : DeliverSnapshot(i)
    \/ \E i \in 1..MaxSubs : ListenerError(i)
    \/ \E d \in ListenedInputs, u \in Uids : CreateComplaint(d, u, TRUE)

SpecSubscribe == InitSubscribe /\ [][NextSubscribe]_vars

\* firebase delivers the value event, or the error, a listener is owed
FirebaseDelivers ==
    \A i \in 1..MaxSubs :
        WF_vars(DeliverSnapshot(i)
                    \/ (i \in DOMAIN subs /\ (\E j \in Listeners(i) : subs[j].pending) /\ ListenerError(i)))

SpecSubscribeFair == SpecSubscribe /\ FirebaseDelivers

\* ------------------------------------------- ComplaintsDashboard heatmap
\* complaints the ComplaintsDashboard is handed
MaxMapComplaints == 4

\* coordinates in units of 0.0001 degree; 0 stands for a missing coordinate
Latitudes == {0, 264499, 264501, 264512}

Longitudes == {0, 803319}

\* Math.round(x * 1000) / 1000, the result in units of 0.001 degree
Round3(x) == (x + 5) \div 10

hasLocation(c) == c.latitude # 0 /\ c.longitude # 0

RECURSIVE GroupByLocation(_, _)
\* the forEach of fetchHeatmapData: locationGroups in insertion order
GroupByLocation(list, groups) ==
    IF list = <<>> THEN groups
    ELSE LET c == Head(list)
             lat == Round3(c.latitude)
             lng == Round3(c.longitude)
             at == { g \in DOMAIN groups : groups[g].lat = lat /\ groups[g].lng = lng }
         IN  IF at = {}
             THEN GroupByLocation(Tail(list),
                      Append(groups, [lat |-> lat, lng |-> lng, count |-> 1, complaints |-> <<c.id>>]))
             ELSE LET g == CHOOSE x \in at : TRUE IN
                  GroupByLocation(Tail(list),
                      [groups EXCEPT ![g].count = @ + 1, ![g].complaints = Append(@, c.id)])

\* fetchHeatmapData: Object.values(locationGroups) of the located complaints
fetchHeatmapData(complaints) == GroupByLocation(SelectSeq(complaints, hasLocation), <<>>)

\* pathOptions.color of a zone's circle
zoneColor(zone) == IF zone.count > 3 THEN "#dc2626" ELSE "#f59e0b"

\* the circles drawn: none unless showHeatmap, and none for a zone without
\* coordinates
Circles ==
    IF showHeatmap
    THEN { [zone |-> heatmapData[z], color |-> zoneColor(heatmapData[z])] :
             z \in { x \in DOMAIN heatmapData : heatmapData[x].lat # 0 /\ heatmapData[x].lng # 0 } }
    ELSE {}

\* the subscription hands over a list longer by one complaint; the effect on
\* [complaints] recomputes the heatmap
ComplaintsUpdated(lat, lng) ==
    /\ Len(mapComplaints) < MaxMapComplaints
    /\ mapComplaints' = Append(mapComplaints,
                               [id |-> Len(mapComplaints) + 1, latitude |-> lat, longitude |-> lng])
    /\ heatmapData' = fetchHeatmapData(mapComplaints')
    /\ UNCHANGED <<showHeatmap, frontVars, svcVars, clientVars, detailVars>>

\* the Show Heatmap / Hide Heatmap button
ToggleHeatmap ==
    /\ showHeatmap' = ~showHeatmap
    /\ UNCHANGED <<mapComplaints, heatmapData, frontVars, svcVars, clientVars, detailVars>>

InitHeatmap ==
    /\ ServiceDown
    /\ NoClients
    /\ FrontEndIdle

NextHeatmap ==
    \/ \E lat \in Latitudes, lng \in Longitudes : ComplaintsUpdated(lat, lng)
    \/ ToggleHeatmap

SpecHeatmap == InitHeatmap /\ [][NextHeatmap]_vars

\* ------------------------------------------------------- status updates
\* the options of the New Status select
StatusOptions == {"pending", "in_progress", "resolved"}

\* options of the Priority select (low and high behave as normal does)
PriorityOptions == {"normal", "urgent"}

\* updateComplaint: update() merges the fields given into complaints/{id}
updateComplaint(database, complaintId, updates) ==
    IF complaintId \in DOMAIN database
    THEN [database EXCEPT ![complaintId] =
            [f \in DOMAIN @ \cup DOMAIN updates |->
                IF f \in DOMAIN updates THEN updates[f] ELSE @[f]]]
    ELSE database

\* updateComplaintStatus
updateComplaintStatus(database, complaintId, status, updatedBy) ==
    updateComplaint(database, complaintId,
                    IF Falsy(updatedBy) THEN [status |-> status]
                    ELSE [status |-> status, updatedBy |-> updatedBy])

\* handleStatusUpdate of DepartmentDashboard: complaints/ after the status write
\* and, when a priority is given, the priority write; a rejected write is caught
\* and ends the handler
handleStatusUpdate(database, complaintId, newStatus, newPriority, uid, statusOk, priorityOk) ==
    IF ~statusOk THEN database
    ELSE CHOOSE after \in
            { IF Falsy(newPriority) \/ ~priorityOk THEN written
              ELSE updateComplaint(written, complaintId, [priority |-> newPriority]) :
                written \in {updateComplaintStatus(database, complaintId, newStatus, uid)} } : TRUE

\* the status the button of a complaint card asks for
CardButtonStatus(complaint) ==
    IF complaint.status = "pending" THEN "in_progress" ELSE "resolved"

\* Start Work / Mark Resolved on the card of the n-th listed complaint
CardStatusButton(n, statusOk) ==
    /\ dash.kind = "department"
    /\ ~dash.isLoading
    /\ n \in DOMAIN dash.complaints
    /\ dash.complaints[n].status \in {"pending", "in_progress"}
    /\ \E after \in {handleStatusUpdate(db, dash.complaints[n].id,
                                        CardButtonStatus(dash.complaints[n]), Null,
                                        user[1].uid, statusOk, TRUE)} :
          /\ db' = after
          /\ subs' = Notify(subs, db, after)
    /\ UNCHANGED <<authVars, routeVars, reportVars, nextKey, pendingWrites>>
    /\ UNCHANGED <<svcVars, lastCall, dash, heatVars, detailVars>>

\* View Details on the card of the n-th listed complaint: ComplaintDetails mounts
ViewDetails(n) ==
    /\ dash.kind = "department"
    /\ ~dash.isLoading
    /\ details.selected = <<>>
    /\ n \in DOMAIN dash.complaints
    /\ details' = [selected |-> <<dash.complaints[n]>>,
                   localComplaint |-> <<dash.complaints[n]>>,
                   newStatus |-> Or(dash.complaints[n].status, "pending"),
                   newPriority |-> Or(dash.complaints[n].priority, "normal")]
    /\ UNCHANGED <<frontVars, svcVars, clientVars, heatVars>>

\* the New Status select changes
SetNewStatus(status) ==
    /\ details.selected # <<>>
    /\ status # details.newStatus
    /\ details' = [details EXCEPT !.newStatus = status]
    /\ UNCHANGED <<frontVars, svcVars, clientVars, heatVars>>

\* the Priority select changes
SetNewPriority(priority) ==
    /\ details.selected # <<>>
    /\ priority # details.newPriority
    /\ details' = [details EXCEPT !.newPriority = priority]
    /\ UNCHANGED <<frontVars, svcVars, clientVars, heatVars>>

\* the Update Status button of ComplaintDetails; onStatusUpdate catches a
\* rejected write itself, so the local copy is updated either way
UpdateStatus(statusOk, priorityOk) ==
    /\ details.selected # <<>>
    /\ \E after \in {handleStatusUpdate(db, details.localComplaint[1].id, details.newStatus,
                                        details.newPriority, user[1].uid, statusOk, priorityOk)} :
          /\ db' = after
          /\ subs' = Notify(subs, db, after)
    /\ details' = [details EXCEPT !.localComplaint =
                      <<[details.localComplaint[1] EXCEPT !.status = details.newStatus,
                                                          !.priority = details.newPriority]>>]
    /\ UNCHANGED <<authVars, routeVars, reportVars, nextKey, pendingWrites>>
    /\ UNCHANGED <<svcVars, lastCall, dash, heatVars>>

\* Close: setSelectedComplaint(null)
CloseDetails ==
    /\ details.selected # <<>>
    /\ details' = NoDetails
    /\ UNCHANGED <<frontVars, svcVars, clientVars, heatVars>>

\* the official whose dashboard is followed
Official == UserFromProfile("u2", [userType |-> "official", department |-> "Public Works"])

\* complaintData of the complaints citizens file for the official's department
StatusInputs ==
    [issueType : {"pothole"}, description : {"text"}, department : {"Public Works"},
     status : {Null}, priority : {Null}]

\* the official is signed in and opens the department dashboard
InitStatus ==
    /\ ServiceDown
    /\ NoClients
    /\ user = <<Official>>
    /\ authLoading = FALSE
    /\ pendingFetch = {}
    /\ route = DEPARTMENT_DASHBOARD_PATH
    /\ mounted = AppContent(DEPARTMENT_DASHBOARD_PATH, user, FALSE)
    /\ step = 1
    /\ formData = InitialFormData
    /\ isLoading = FALSE
    /\ classificationResult = <<>>
    /\ imgCount = 0
    /\ inflight = {}
    /\ imageOutcome = "none"
    /\ sent = <<>>
    /\ db = <<>>
    /\ nextKey = 1
    /\ pendingWrites = {}

NextStatus ==
    \/ MountDepartmentDashboard(getDepartment(user), FALSE)
    \/ \E d \in StatusInputs : CreateComplaint(d, "u1", TRUE)
    \/ \E i \in 1..MaxSubs : DeliverSnapshot(i)
    \/ \E n \in 1..MaxRecords, statusOk \in BOOLEAN : CardStatusButton(n, statusOk)
    \/ \E n \in 1..MaxRecords : ViewDetails(n)
    \/ \E status \in StatusOptions : SetNewStatus(status)
    \/ \E priority \in PriorityOptions : SetNewPriority(priority)
    \/ \E statusOk, priorityOk \in BOOLEAN : UpdateStatus(statusOk, priorityOk)
    \/ CloseDetails

SpecStatus == InitStatus /\ [][NextStatus]_vars

\* ------------------------------------------------------------------ claims
Records == { db[k] : k \in DOMAIN db } \cup { w.rec : w \in pendingWrites }

\* C1: every complaint ReportIssue submits carries the department the static
\* table gives for its issue type: for the six classifier categories the
\* documented one, and two complaints of the same type never differ in department.
C1_DepartmentByIssueType ==
    /\ \A r \in Records :
          r.issueType \in ClassLabels => r.department = DocumentedDepartment[r.issueType]
    /\ \A r1, r2 \in Records : r1.issueType = r2.issueType => r1.department = r2.department

\* C1 witness: a garbage complaint is stored while the classifier said otherwise.
C1_Witness ==
    \E k \in DOMAIN db : db[k].issueType = "garbage" /\ db[k].department = "Sanitation"

\* C2 (as claimed): once the classification request for the current image has
\* failed, ReportIssue holds no classifier result, so step 2 presents no label
\* and no auto-filled issue type for that image.
C2_NoLabelAfterFailure ==
    (ReportMounted /\ imageOutcome = "failed") => classificationResult = <<>>

\* C6: a page behind ProtectedRoute is rendered only when auth loading has
\* finished and the user is authenticated with the required role; while loading
\* a spinner is shown, an unauthenticated user is sent to /login, a non-citizen
\* on a citizen route to /dashboard and a non-official on an official route to /.
C6_ProtectedRoute ==
    /\ (mounted.kind = "page" /\ route \in CitizenRoutes) =>
          ~authLoading /\ isAuthenticated(user) /\ isCitizen(user)
    /\ (mounted.kind = "page" /\ route \in OfficialRoutes) =>
          ~authLoading /\ isAuthenticated(user) /\ isOfficial(user)
    /\ (route \in CitizenRoutes \cup OfficialRoutes) =>
          /\ authLoading => mounted.kind = "spinner"
          /\ (~authLoading /\ ~isAuthenticated(user)) => mounted = NavigateTo("/login")
    /\ (route \in CitizenRoutes /\ ~authLoading /\ isAuthenticated(user) /\ ~isCitizen(user)) =>
          mounted = NavigateTo("/dashboard")
    /\ (route \in OfficialRoutes /\ ~authLoading /\ isAuthenticated(user) /\ ~isOfficial(user)) =>
          mounted = NavigateTo("/")

\* C6 witness: a signed-in official opens a citizen route and is redirected.
C6_Witness ==
    /\ route \in CitizenRoutes
    /\ isOfficial(user)
    /\ mounted = NavigateTo("/dashboard")

\* C7: every image handed to ReportIssue has had exactly one classification
\* POST, and after the POST for the current image failed none is in flight for it.
C7_OneRequestPerImage ==
    /\ Len(sent) = imgCount
    /\ \A i \in 1..imgCount : sent[i] = 1
    /\ inflight \subseteq 1..imgCount
    /\ imageOutcome \in {"ok", "failed"} => formData.image \notin inflight

\* C7 witness: two images were handed over, the second one's POST failed and
\* nothing is in flight.
C7_Witness ==
    /\ imgCount = 2
    /\ imageOutcome = "failed"
    /\ inflight = {}

\* a step in which a classification POST of the mounted ReportIssue resolves
ClassifyResolves ==
    /\ mounted = ReportPage
    /\ mounted' = ReportPage
    /\ inflight' # inflight
    /\ inflight' \subseteq inflight

\* C8: a resolving classification request changes nothing but
\* classificationResult, formData.issueType and the loading flag; no step that
\* starts or resolves a classification touches the complaints, and a record
\* enters the database only from a write handleSubmit issued.
C8_ClassifyFrame ==
    [][ /\ ClassifyResolves =>
            /\ step' = step
            /\ formData'.image = formData.image
            /\ formData'.description = formData.description
            /\ imgCount' = imgCount
            /\ sent' = sent
            /\ dbVars' = dbVars
            /\ authVars' = authVars
            /\ route' = route
        /\ (imgCount' = imgCount + 1) => dbVars' = dbVars
        /\ db' # db => \E w \in pendingWrites : db' = (w.rec.id :> w.rec) @@ db
      ]_vars

\* C8 witness: the response for the current image arrived over a form that
\* already held a description.
C8_Witness ==
    /\ ReportMounted
    /\ imageOutcome = "ok"
    /\ classificationResult # <<>>
    /\ formData.description = "text"
    /\ db = <<>>

\* the class label set for the configured class count
ClassLabelSet == IF numClasses = 5 THEN ClassLabels \ {"illegal_parking"} ELSE ClassLabels

Accepted == { calls[c] : c \in DOMAIN calls }

\* C3: requests are accepted only by a process that loaded the weights artifact;
\* with a missing or unloadable artifact the process ends failed with a
\* diagnostic, holds no model and never accepts a request.
C3_ServeOnlyWithLoadedModel ==
    /\ (svcState = "serving" \/ calls # <<>>) =>
          /\ artifact.kind = "valid"
          /\ model = <<[weights |-> artifact.weights, labels |-> LabelsFor(artifact.classes)]>>
    /\ (svcState # "starting" /\ artifact.kind # "valid") =>
          /\ svcState = "failed"
          /\ diagnostic # ""
          /\ model = <<>>
          /\ calls = <<>>
    /\ svcState = "failed" => diagnostic # "" /\ calls = <<>>

\* C3 witness: the artifact is missing and the process has refused to start.
C3_Witness ==
    /\ artifact.kind = "missing"
    /\ svcState = "failed"

\* C4: every result predict returns for a valid image has a category of the
\* configured class label set and a confidence num/den in [0,1] that is the
\* maximum of the returned distribution.
C4_ResultInLabelSet ==
    \A a \in Accepted :
        (a.stage = "done" /\ a.result.kind = "ok") =>
            /\ a.result.category \in ClassLabelSet
            /\ a.result.den > 0
            /\ 0 <= a.result.num /\ a.result.num <= a.result.den
            /\ a.result.den = SumSeq(a.result.probabilities)
            /\ \A i \in DOMAIN a.result.probabilities : a.result.probabilities[i] <= a.result.num
            /\ \E i \in DOMAIN a.result.probabilities : a.result.probabilities[i] = a.result.num

\* C4 witness: a five-class service has answered potholes for a valid image.
C4_Witness ==
    /\ numClasses = 5
    /\ \E a \in Accepted : a.result.kind = "ok" /\ a.result.category = "potholes"

\* C5: once serving, no step changes the loaded parameters, and every result
\* returned is the one the parameters loaded at start give for that image,
\* whatever other calls failed before or beside it.
C5_ModelReadOnly ==
    /\ [][svcState = "serving" => model' = model]_vars
    /\ [](\A c \in DOMAIN calls :
            (calls[c].stage = "done" /\ calls[c].result.kind = "ok") =>
                calls[c].result =
                    Classify([weights |-> artifact.weights, labels |-> LabelsFor(artifact.classes)],
                             calls[c].image))

\* C5 witness: one call failed with InferenceError and another returned a result.
C5_Witness ==
    /\ \E a \in Accepted : a.result.kind = "InferenceError"
    /\ \E a \in Accepted : a.result.kind = "ok"

\* C9: a createComplaint call that returns hands back the key under which the
\* record is stored; the record carries that key as id, the caller's userId,
\* and the supplied status and priority or 'pending' and 'normal' when the
\* data gave none. A getComplaintById call whose read completes returns the
\* stored record for a created key and null for a key never created, and
\* throws in neither case.
C9_CreateThenGet ==
    /\ (lastCall.op = "createComplaint" /\ ~lastCall.threw) =>
          /\ lastCall.key \in DOMAIN db
          /\ db[lastCall.key].id = lastCall.key
          /\ db[lastCall.key].userId = lastCall.userId
          /\ db[lastCall.key].status =
                IF lastCall.data[1].status \in {Null, ""} THEN "pending"
                ELSE lastCall.data[1].status
          /\ db[lastCall.key].priority =
                IF lastCall.data[1].priority \in {Null, ""} THEN "normal"
                ELSE lastCall.data[1].priority
    /\ (lastCall.op = "getComplaintById" /\ lastCall.dbOk) =>
          /\ ~lastCall.threw
          /\ lastCall.id \in DOMAIN db =>
                /\ lastCall.record = <<db[lastCall.id]>>
                /\ lastCall.record[1].id = lastCall.id
          /\ lastCall.id \notin DOMAIN db => lastCall.record = <<>>

\* C9 witness: getComplaintById has returned a record that createComplaint
\* stored with the default status and priority.
C9_Witness ==
    /\ lastCall.op = "getComplaintById"
    /\ lastCall.record # <<>>
    /\ lastCall.record[1].status = "pending"
    /\ lastCall.record[1].priority = "normal"

\* the records of the database a subscription's query selects
Selected(sub) ==
    { db[k] : k \in { j \in DOMAIN db : sub.kind = "user" => db[j].userId = sub.key } }

\* what the subscriber was last handed is right: the empty array after a setup
\* that threw or a listener error, else (unless an event is still owed) exactly
\* the selected records, each once, which is the empty array when there are none
ViewCurrent(sub) ==
    IF sub.threw \/ sub.errored THEN sub.lastArg = <<>>
    ELSE sub.pending \/
         /\ { sub.lastArg[n] : n \in DOMAIN sub.lastArg } = Selected(sub)
         /\ Len(sub.lastArg) = Cardinality(Selected(sub))

\* C10: every subscribe call is followed by an invocation of its callback; the
\* argument is the list of the complaints the subscription selects, or the empty
\* array when there are none, when the listener reported an error or when the
\* setup threw; a mounted dashboard that is loading stops loading.
C10_CallbackEventuallyInvoked ==
    /\ \A i \in 1..MaxSubs :
          [](i \in DOMAIN subs => <>(i \in DOMAIN subs /\ subs[i].called))
    /\ [](\A i \in DOMAIN subs : subs[i].called => ViewCurrent(subs[i]))
    /\ []((dash.kind # "none" /\ dash.isLoading) => <>(dash.kind = "none" \/ ~dash.isLoading))

\* C10 witness: three ways a callback was reached: a list of two complaints
\* delivered to one subscriber, and the empty array handed to another after
\* its listener failed.
C10_Witness ==
    /\ \E i \in DOMAIN subs :
          /\ subs[i].called /\ ~subs[i].threw /\ ~subs[i].errored
          /\ Len(subs[i].lastArg) = 2
    /\ \E i \in DOMAIN subs : subs[i].called /\ subs[i].errored

\* C11: once the unsubscribe function of a subscription has been called, its
\* callback is not invoked for later database changes: what it was last
\* handed holds no complaint created after the unsubscribe call.
C11_NoCallbackAfterUnsubscribe ==
    \A i \in DOMAIN subs :
        subs[i].unsubscribed =>
            \A n \in DOMAIN subs[i].lastArg : subs[i].lastArg[n].id < subs[i].unsubscribedAt

\* C12: every heat zone drawn for 3 or more complaints is red and every one
\* drawn for fewer is orange, and the zone counts add up to the number of
\* complaints that have a location.
C12_HeatmapDensity ==
    /\ \A c \in Circles :
          /\ c.zone.count >= 3 => c.color = "#dc2626"
          /\ c.zone.count < 3 => c.color = "#f59e0b"
    /\ SumSeq([z \in DOMAIN heatmapData |-> heatmapData[z].count])
          = Cardinality({ n \in DOMAIN mapComplaints : hasLocation(mapComplaints[n]) })

\* C13: a step of ReportIssue that creates a complaint record starts from a
\* state with a signed-in user that has a uid, a non-empty issue type and a
\* description that is not blank, and the record it creates has status
\* 'pending' and that user's uid as userId; from any other state no step
\* creates a record. Every record ever written keeps that status and an owner.
C13_SubmitGuards ==
    /\ [][nextKey' # nextKey =>
            /\ user # <<>>
            /\ user[1].uid \notin {"", Null}
            /\ formData.issueType \notin {"", Null}
            /\ formData.description \notin {"", " ", Null}
            /\ \E w \in pendingWrites' \ pendingWrites :
                  /\ w.rec.id = nextKey
                  /\ w.rec.status = "pending"
                  /\ w.rec.userId = user[1].uid
                  /\ w.rec.issueType = formData.issueType]_vars
    /\ [](\A r \in Records : r.status = "pending" /\ r.userId \in Uids /\ r.description \notin {"", " "})

\* C13 witness: handleSubmit has passed its guards: a record with the user's
\* uid and status 'pending' awaits its write and the form shows loading.
C13_Witness ==
    /\ \E w \in pendingWrites : w.live /\ w.rec.userId = user[1].uid /\ w.rec.status = "pending"
    /\ isLoading

\* the complaints of the database filed under a department, whatever the
\* letter case and the blanks around the name
OfDepartment(department) ==
    { db[k] : k \in { j \in DOMAIN db :
                        normalizeDepartment(db[j].department) = normalizeDepartment(department) } }

\* C14: a DepartmentDashboard whose subscription has been served and is owed
\* no event holds and counts exactly the complaints of the official's
\* department; for an official with no department it holds none and is not
\* loading.
C14_DepartmentFilter ==
    dash.kind = "department" =>
        IF Falsy(dash.key)
        THEN dash.complaints = <<>> /\ ~dash.isLoading
        ELSE (/\ subs[dash.sub].called
              /\ ~subs[dash.sub].threw
              /\ ~subs[dash.sub].errored
              /\ ~subs[dash.sub].pending) =>
                 /\ { dash.complaints[n] : n \in DOMAIN dash.complaints } = OfDepartment(dash.key)
                 /\ Len(dash.complaints) = Cardinality(OfDepartment(dash.key))
                 /\ dash.stats.total = Cardinality(OfDepartment(dash.key))
                 /\ ~dash.isLoading

\* C15: whatever the filter settings, every complaint CitizenDashboard renders
\* belongs to the current user; with no user signed in it renders none and is
\* not loading.
C15_OwnComplaintsOnly ==
    dash.kind = "citizen" =>
        /\ \A filters \in FilterSettings :
              LET shown == filteredComplaints(dash.complaints, filters, dash.key)
              IN  /\ \A n \in DOMAIN shown : shown[n].userId = dash.key
                  /\ Falsy(dash.key) => shown = <<>>
        /\ Falsy(dash.key) => ~dash.isLoading

\* the list CitizenDashboard holds has a complaint of another user, which the
\* filter keeps off the page, while the database holds one of the current user's
C15_Witness ==
    /\ dash.kind = "citizen"
    /\ ~Falsy(dash.key)
    /\ \E n \in DOMAIN dash.complaints : dash.complaints[n].userId # dash.key
    /\ \E r \in Selected([kind |-> "user", key |-> dash.key]) : TRUE

\* C16: the auth-state event of a signed-in user ends with the session user
\* authenticated under that uid, with the userType and the department its
\* profile holds (citizen and none where the profile holds neither), and as a
\* citizen with no department when the profile is missing or the read fails;
\* the event of a sign-out ends with no user; every event ends with the
\* loading flag cleared, and the flag is never set again.
C16_SessionFromProfile ==
    /\ [][/\ \A uid \in Uids, outcome \in {"exists", "missing", "error"}, userData \in ProfileData :
                ProfileFetched(uid, outcome, userData) =>
                    /\ user' # <<>>
                    /\ user'[1].uid = uid
                    /\ user'[1].isAuthenticated
                    /\ ~authLoading'
                    /\ IF outcome = "exists"
                       THEN /\ userData.userType # "" => user'[1].userType = userData.userType
                            /\ userData.userType = "" => user'[1].userType = "citizen"
                            /\ user'[1].department = userData.department
                       ELSE user'[1].userType = "citizen" /\ user'[1].department = Null
          /\ AuthStateChangedSignedOut => user' = <<>> /\ ~authLoading'
          /\ ~authLoading => ~authLoading']_vars
    /\ [](authLoading => user = <<>>)

\* an official's profile has been read: the session user carries its department
C16_Witness ==
    /\ user # <<>>
    /\ user[1].userType = "official"
    /\ user[1].department = "Public Works"
    /\ user[1].isAuthenticated
    /\ ~authLoading

\* position of a status in the order pending, in_progress, resolved
StatusRank(status) ==
    CASE status = "pending" -> 1
      [] status = "in_progress" -> 2
      [] status = "resolved" -> 3

\* C17: no step taken through the department dashboard moves the status of a
\* complaint backwards in the order pending, in_progress, resolved; a resolved
\* complaint stays resolved.
C17_StatusOnlyForward ==
    [][\A k \in DOMAIN db : StatusRank(db'[k].status) >= StatusRank(db[k].status)]_vars

====
